---- MODULE Spec2Model ----
(***************************************************************************)
(* Model of ssd_core.run_ssd_analysis (src/ssd_core.py) and of             *)
(* utils.calculate_aicc (src/utils.py).                                    *)
(*                                                                         *)
(* Numbers.  Floats are modelled in fixed point:                           *)
(*   - concentrations are small integers, NaN is a sentinel;               *)
(*   - weights are in thousandths (1000 = 1.0);                            *)
(*   - CDF values returned by scipy are in hundredths (100 = 1.0), so a    *)
(*     weighted CDF value is in units of 1/100000 and, read as a percent   *)
(*     (the code multiplies by 100), in thousandths of a percent;          *)
(*   - weighted HCp values are in thousandths of a concentration unit.     *)
(*                                                                         *)
(* scipy.  The results of scipy's fit/logpdf/ppf/cdf are not computed by   *)
(* the repository.  They are modelled as an unknown PURE function of       *)
(* (family, sample): the variable lib, chosen in Init and never changed,   *)
(* selects one member of a family of such functions (LibOutcome).          *)
(***************************************************************************)
EXTENDS Integers, Sequences, FiniteSets, TLC

\* ------------------------------------------------------------------ bounds
\* largest n_boot explored
MaxBoot == 3

\* points of the concentration grid (200 in the code, line 108)
GridLen == 2

\* number of states of the process-wide generator
RngMod == 8

\* number of scipy behaviours per (family, sample)
LibSize == 6

\* ------------------------------------------------------- floats, sentinels
NaN == -999999

\* the value np.inf
Inf == 999999

\* np.isfinite
IsFinite(x) == x # NaN /\ x # Inf /\ x # 0 - Inf

Min2(a, b) == IF a <= b THEN a ELSE b

RECURSIVE SumSeq(_)
SumSeq(s) == IF s = <<>> THEN 0 ELSE Head(s) + SumSeq(Tail(s))

RECURSIVE MinSeq(_)
MinSeq(s) == IF Len(s) = 1 THEN s[1] ELSE Min2(s[1], MinSeq(Tail(s)))

RECURSIVE MaxSeq(_)
MaxSeq(s) == IF Len(s) = 1 THEN s[1]
             ELSE LET m == MaxSeq(Tail(s)) IN IF s[1] >= m THEN s[1] ELSE m

\* np.log on the concentrations the datasets use, rounded to an integer
Ln(x) == CASE x = 1  -> 0
           [] x = 3  -> 1
           [] x = 7  -> 2
           [] x = 20 -> 3
           [] OTHER  -> NaN

\* np.exp of an integer or non-finite argument (exp(nan) = nan)
Exp(q) == CASE q = NaN -> NaN
            [] q = 0   -> 1
            [] q = 1   -> 3
            [] q = 2   -> 7
            [] q = 3   -> 20
            [] q < 0   -> 0
            [] OTHER   -> 55

\* sum of np.log over a sample
RECURSIVE SumLn(_)
SumLn(s) == IF s = <<>> THEN 0 ELSE Ln(Head(s)) + SumLn(Tail(s))

\* ------------------------------------------------------------ DISTRIBUTIONS
Names == <<"Log-Normal", "Log-Logistic", "Weibull", "Gamma">>

DISTRIBUTIONS ==
    [name \in {Names[j] : j \in 1..Len(Names)} |->
        [k |-> 2, log |-> name \in {"Log-Normal", "Log-Logistic"}]]

NameIdx(name) == CHOOSE j \in 1..Len(Names) : Names[j] = name

\* utils.calculate_aicc.  With k = 2 the last term is 12 / (n - 3), which is
\* an integer for the sample sizes of the datasets below (n = 5 and n = 6).
calculate_aicc(k, log_likelihood, n) ==
    IF n - k - 1 <= 0 THEN Inf
    ELSE 2 * k - 2 * log_likelihood + (2 * k * k + 2 * k) \div (n - k - 1)

\* ------------------------------------------------------------------- scipy
\* What scipy returns for one family on one sample: whether .fit raises,
\* the sum of .logpdf on the fit scale (ll), .ppf(p_value) on the fit scale
\* (q), the values of .cdf over the grid (cdf) and whether .cdf raises.
LibRow(j) ==
    CASE j = 0 -> [raises |-> TRUE,  ll |-> 0,  q |-> NaN, cdf_raises |-> FALSE]
      [] j = 1 -> [raises |-> FALSE, ll |-> -6, q |-> NaN, cdf_raises |-> FALSE]
      [] j = 2 -> [raises |-> FALSE, ll |-> -7, q |-> 0,   cdf_raises |-> FALSE]
      [] j = 3 -> [raises |-> FALSE, ll |-> -5, q |-> 1,   cdf_raises |-> FALSE]
      [] j = 4 -> [raises |-> FALSE, ll |-> -9, q |-> 2,   cdf_raises |-> FALSE]
      [] j = 5 -> [raises |-> FALSE, ll |-> -6, q |-> 1,   cdf_raises |-> TRUE]
      [] OTHER -> [raises |-> FALSE, ll |-> -8, q |-> 1,   cdf_raises |-> FALSE]

LibCdf(j) == [g \in 1..GridLen |-> Min2(100, 15 * j + 40 * (g - 1))]

\* Which row scipy produces: any fixed function of the family, the sample and
\* the selector l will do; this one mixes them so that the four families
\* succeed and fail independently of each other over the datasets.
LibMult == <<5, 2, 4, 3>>

LibStride == <<0, 5, 5, 1>>

LibIndex(name, sample, l) ==
    (LibMult[NameIdx(name)] * SumSeq(sample) + LibStride[NameIdx(name)] + l) % LibSize

LibOutcome(name, sample, l) ==
    LET j == LibIndex(name, sample, l)
        r == LibRow(j)
    IN  [raises |-> r.raises, ll |-> r.ll, q |-> r.q,
         cdf |-> LibCdf(j), cdf_raises |-> r.cdf_raises]

\* ---------------------------------------------- _fit_single_distribution
\* Returns [raised |-> TRUE] when scipy's fit raises, else the fit record.
NoFit == [raised |-> TRUE, name |-> "", aicc |-> 0, hcp |-> NaN,
          is_log |-> FALSE, cdf |-> <<>>, cdf_raises |-> FALSE, weight |-> 0]

\* the log-likelihood of a log-scale family is left on the log scale
_fit_single_distribution_NoJacobian(dist_name, model_info, data, l) ==
    LET is_log == model_info.log
        o      == LibOutcome(dist_name, data, l)
        log_likelihood == o.ll
        aicc   == calculate_aicc(model_info.k, log_likelihood, Len(data))
        hcp    == IF is_log THEN Exp(o.q) ELSE o.q
    IN  IF o.raises THEN NoFit
        ELSE [raised |-> FALSE, name |-> dist_name, aicc |-> aicc, hcp |-> hcp,
              is_log |-> is_log, cdf |-> o.cdf, cdf_raises |-> o.cdf_raises,
              weight |-> 0]

_fit_single_distribution(dist_name, model_info, data, l) ==
    LET is_log == model_info.log
        o      == LibOutcome(dist_name, data, l)
        log_likelihood == IF is_log THEN o.ll - SumLn(data) ELSE o.ll
        aicc   == calculate_aicc(model_info.k, log_likelihood, Len(data))
        hcp    == IF is_log THEN Exp(o.q) ELSE o.q
    IN  IF o.raises THEN NoFit
        ELSE [raised |-> FALSE, name |-> dist_name, aicc |-> aicc, hcp |-> hcp,
              is_log |-> is_log, cdf |-> o.cdf, cdf_raises |-> o.cdf_raises,
              weight |-> 0]

\* a fit is kept whenever scipy did not raise (no test of the HCp)
ValidFit_NoHcpTest(fit) == ~fit.raised

\* an HCp of exactly zero passes the test
ValidFit_AllowsZero(fit) == (~fit.raised) /\ IsFinite(fit.hcp) /\ fit.hcp >= 0

\* the test of lines 83 and 119: the fit is kept
ValidFit(fit) == (~fit.raised) /\ IsFinite(fit.hcp) /\ fit.hcp > 0

\* ---------------------------------------------------------- Akaike weights
\* np.exp(-0.5 * d) for an AICc difference d >= 0, in thousandths
ExpNegHalf(d) ==
    CASE d = 0  -> 1000 [] d = 1  -> 607 [] d = 2  -> 368 [] d = 3  -> 223
      [] d = 4  -> 135  [] d = 5  -> 82  [] d = 6  -> 50  [] d = 7  -> 30
      [] d = 8  -> 18   [] d = 9  -> 11  [] d = 10 -> 7   [] d = 11 -> 4
      [] d = 12 -> 2    [] d = 13 -> 2   [] d = 14 -> 1   [] OTHER  -> 0

\* relative likelihoods that are not divided by their sum
AkaikeWeights_NotNormalised(aiccs) ==
    LET lo == MinSeq(aiccs)
    IN  [j \in 1..Len(aiccs) |-> ExpNegHalf(aiccs[j] - lo)]

\* exp(-0.5*(aicc - aicc.min())) / sum(exp(-0.5*(aicc - aicc.min())))
AkaikeWeights(aiccs) ==
    LET lo == MinSeq(aiccs)
        e  == [j \in 1..Len(aiccs) |-> ExpNegHalf(aiccs[j] - lo)]
        tot == SumSeq(e)
    IN  [j \in 1..Len(aiccs) |-> (e[j] * 1000) \div tot]

\* the 'weight' column of lines 100 and 126
Weights(mode, fits) ==
    IF mode = "single_distribution"
    THEN [j \in 1..Len(fits) |-> 1000]
    ELSE AkaikeWeights([j \in 1..Len(fits) |-> fits[j].aicc])

\* the rows whose weight is zero are dropped from the table
WithWeights_DropsZero(mode, fits) ==
    LET w   == Weights(mode, fits)
        all == [j \in 1..Len(fits) |-> [fits[j] EXCEPT !.weight = w[j]]]
    IN  SelectSeq(all, LAMBDA row : row.weight > 0)

\* lines 91 and 100: every fit kept becomes a row and gets its weight
WithWeights(mode, fits) ==
    LET w == Weights(mode, fits)
    IN  [j \in 1..Len(fits) |-> [fits[j] EXCEPT !.weight = w[j]]]

\* np.sum(df['weight'] * df['hcp']), in thousandths
WeightedHcp(df) == SumSeq([j \in 1..Len(df) |-> df[j].weight * df[j].hcp])

\* the weighted CDF curve accumulated over the rows, in 1/100000
RECURSIVE AvgCdf(_, _)
AvgCdf(df, upto) ==
    IF upto = 0 THEN [g \in 1..GridLen |-> 0]
    ELSE LET prev == AvgCdf(df, upto - 1)
         IN  [g \in 1..GridLen |-> prev[g] + df[upto].weight * df[upto].cdf[g]]

CdfRaises(df) == \E j \in 1..Len(df) : df[j].cdf_raises

\* --------------------------------------------------- process-wide generator
\* the seed is ignored and the generator keeps its state
SeedRng_NotSeeded(r, random_seed) == r

\* np.random.seed(random_seed): replaces the generator state r
SeedRng(r, random_seed) == random_seed % RngMod

NextRng(r) == (5 * r + 3) % RngMod

\* the draws come from a fitted model: values of its support, which need
\* not be observations
Resample_FromModel(valid, r, count) ==
    [sample |-> [j \in 1..count |-> <<1, 3, 7, 20>>[((r + j) % 4) + 1]],
     rng |-> NextRng(r)]

\* valid_data.sample(n=n, replace=True): n draws from the global generator
RECURSIVE Resample(_, _, _)
Resample(valid, r, count) ==
    IF count = 0 THEN [sample |-> <<>>, rng |-> r]
    ELSE LET rest == Resample(valid, NextRng(r), count - 1)
         IN  [sample |-> <<valid[(r % Len(valid)) + 1]>> \o rest.sample,
              rng |-> rest.rng]

\* --------------------------------------------------------------- percentile
\* np.percentile(a, q) by linear interpolation; q10 is q in tenths of a
\* percent (25 for 2.5, 975 for 97.5)
Percentile(a, q10) ==
    LET s    == SortSeq(a, <)
        pos  == q10 * (Len(s) - 1)
        lo   == pos \div 1000
        frac == pos % 1000
    IN  IF frac = 0 THEN s[lo + 1]
        ELSE s[lo + 1] + ((s[lo + 2] - s[lo + 1]) * frac) \div 1000

\* np.percentile(boot_cdfs, q, axis=0)
PercentileCurve(curves, q10) ==
    [g \in 1..GridLen |->
        Percentile([c \in 1..Len(curves) |-> curves[c][g]], q10)]

NaNCurve == [g \in 1..GridLen |-> NaN]

\* -------------------------------------------------------------------- inputs
\* Each dataset is the value column of the DataFrame, row by row; NaN is a
\* missing concentration.
Datasets == { <<3, 7, 0, NaN, 1, 20>>,
              <<1, 3, 7, 20, 3>>,
              <<7, -1, 1, 3, NaN, 20, 7>>,
              <<3, 3, 3, 3, 3>>,
              <<1, 3, 7, 20, 7, 1>> }

None == "None"

Modes == {"model_averaging", "single_distribution"}

Candidates == {None, "Normal"} \cup DOMAIN DISTRIBUTIONS

Seeds == {42, 7}

Args == [data : Datasets, has_group : BOOLEAN, mode : Modes,
         selected_dist : Candidates, n_boot : 0..MaxBoot,
         progress_bar : BOOLEAN, random_seed : Seeds]

NoArgs == [data |-> <<>>, has_group |-> FALSE, mode |-> "", selected_dist |-> None,
           n_boot |-> 0, progress_bar |-> FALSE, random_seed |-> 0]

\* --------------------------------------------------------------------- state
VARIABLES
    pc,            \* position of the caller / of run_ssd_analysis
    args,          \* arguments of the call in progress
    lib,           \* which scipy behaviour the process runs against
    rng,           \* state of numpy's process-wide generator
    valid_data,    \* the strictly positive concentrations (line 72)
    n,             \* len(valid_data) (line 75)
    log_messages,  \* line 75
    dists_to_fit,  \* line 77
    results_df,    \* model_fits with the weight column (lines 78-100)
    final_hcp,     \* line 101
    x_range_log,   \* line 108
    boot_hcps,     \* line 104
    boot_cdfs,     \* line 104
    i,             \* number of loop iterations executed (line 110)
    ci,            \* hcp_ci_lower/upper and the two CI curves (lines 149-150)
    result,        \* what the call handed back
    n_fits,        \* history: calls of _fit_single_distribution in this call
    seedings,      \* history: calls of np.random.seed in this call
    boot_samples,  \* history: the resamples drawn in this call
    boot_dfs,      \* history: b_results_df of each iteration (<<>> if none)
    hcp_iter,      \* history: the iteration each entry of boot_hcps is from
    cdf_iter,      \* history: the iteration each entry of boot_cdfs is from
    events,        \* history: candidate failures and discarded iterations
    progress,      \* history: updates received by the progress sink
    calls,         \* number of completed calls
    prev,          \* arguments and result of the previous call
    perturbed,     \* history: the generator was drawn from since that call
    aiccs_in,      \* pure-function check: AICc values handed to the weights
    weights_out    \* pure-function check: the weights computed from them

vars == <<pc, args, lib, rng, valid_data, n, log_messages, dists_to_fit,
          results_df, final_hcp, x_range_log, boot_hcps, boot_cdfs, i, ci,
          result, n_fits, seedings, boot_samples, boot_dfs, hcp_iter,
          cdf_iter, events, progress, calls, prev, perturbed, aiccs_in,
          weights_out>>

\* number of calls a caller makes with the same arguments
MaxCalls == 2

NoCi == [hcp_ci_lower |-> NaN, hcp_ci_upper |-> NaN,
         lower_ci_curve |-> <<>>, upper_ci_curve |-> <<>>]

NoBundle == [hcp |-> NaN, hcp_ci_lower |-> NaN, hcp_ci_upper |-> NaN,
             results_df |-> <<>>, plot_data |-> <<>>]

NoResult == [kind |-> "none", bundle |-> NoBundle, log |-> <<>>]

\* the locals of run_ssd_analysis before the call
Locals ==
    /\ valid_data = <<>> /\ n = 0 /\ log_messages = <<>> /\ dists_to_fit = <<>>
    /\ results_df = <<>> /\ final_hcp = NaN /\ x_range_log = <<>>
    /\ boot_hcps = <<>> /\ boot_cdfs = <<>> /\ i = 0 /\ ci = NoCi
    /\ result = NoResult /\ n_fits = 0 /\ seedings = 0 /\ boot_samples = <<>>
    /\ boot_dfs = <<>> /\ hcp_iter = <<>> /\ cdf_iter = <<>>
    /\ events = <<>> /\ progress = <<>>

Init ==
    /\ pc = "idle" /\ args = NoArgs
    /\ lib \in 0..(LibSize - 1)
    /\ rng = 0
    /\ Locals
    /\ calls = 0 /\ perturbed = FALSE
    /\ prev = [args |-> NoArgs, result |-> NoResult, ci |-> NoCi, boot_samples |-> <<>>]
    /\ aiccs_in = <<>> /\ weights_out = <<>>

\* ------------------------------------------------------------------- helpers
\* a filter that keeps zero concentrations (>= in place of >)
Positive_KeepsZero(v) == v # NaN /\ v >= 0

\* data[data[value_col] > 0]: NaN > 0 is False
Positive(v) == v # NaN /\ v > 0

Entry(kind, name, it) == <<kind, name, it>>

\* the mode is ignored and every family is fitted
DistsToFit_AllFamilies(mode, selected_dist) == Names

\* line 77
DistsToFit(mode, selected_dist) ==
    IF mode = "single_distribution" THEN <<selected_dist>> ELSE Names

\* lines 79-88: the candidates fitted on the original data
RECURSIVE OriginalFits(_, _, _)
OriginalFits(dists, data, l) ==
    IF dists = <<>>
    THEN [fits |-> <<>>, log |-> <<>>, events |-> <<>>, count |-> 0]
    ELSE LET name == Head(dists)
             rest == OriginalFits(Tail(dists), data, l)
         IN  IF name \notin DOMAIN DISTRIBUTIONS THEN rest
             ELSE LET fit == _fit_single_distribution(name, DISTRIBUTIONS[name], data, l)
                      ev  == <<Entry("candidate_failed", name, 0)>>
                  IN  IF fit.raised
                      THEN [fits |-> rest.fits,
                            log |-> <<Entry("fit_failed", name, 0)>> \o rest.log,
                            events |-> ev \o rest.events, count |-> rest.count + 1]
                      ELSE IF ~ValidFit(fit)
                      THEN [fits |-> rest.fits,
                            log |-> <<Entry("hcp_invalid", name, 0)>> \o rest.log,
                            events |-> ev \o rest.events, count |-> rest.count + 1]
                      ELSE [fits |-> <<fit>> \o rest.fits, log |-> rest.log,
                            events |-> rest.events, count |-> rest.count + 1]

\* lines 114-121: the candidates fitted on one resample (nothing is logged)
RECURSIVE BootFits(_, _, _, _)
BootFits(dists, boot_sample, l, it) ==
    IF dists = <<>>
    THEN [fits |-> <<>>, events |-> <<>>, count |-> 0]
    ELSE LET name == Head(dists)
             rest == BootFits(Tail(dists), boot_sample, l, it)
         IN  IF name \notin DOMAIN DISTRIBUTIONS THEN rest
             ELSE LET b_fit == _fit_single_distribution(name, DISTRIBUTIONS[name], boot_sample, l)
                  IN  IF ValidFit(b_fit)
                      THEN [fits |-> <<b_fit>> \o rest.fits,
                            events |-> rest.events, count |-> rest.count + 1]
                      ELSE [fits |-> rest.fits,
                            events |-> <<Entry("candidate_failed", name, it)>> \o rest.events,
                            count |-> rest.count + 1]

\* np.linspace(np.log(min_val) - 2, np.log(max_val) + 2, GridLen)
Linspace(lo, hi) ==
    [g \in 1..GridLen |-> lo + ((hi - lo) * (g - 1)) \div (GridLen - 1)]

Failure(reason) ==
    [kind |-> "failure", bundle |-> NoBundle, log |-> <<Entry(reason, "", 0)>>]

Raised(exc) ==
    [kind |-> "raised", bundle |-> NoBundle, log |-> <<Entry(exc, "", 0)>>]

\* ------------------------------------------------------------------- actions
\* Other code of the process draws from numpy's global generator.
UnrelatedDraw ==
    /\ pc = "idle"
    /\ rng' = NextRng(rng)
    /\ perturbed' = (calls > 0)
    /\ UNCHANGED <<pc, args, lib, valid_data, n, log_messages, dists_to_fit,
                   results_df, final_hcp, x_range_log, boot_hcps, boot_cdfs, i,
                   ci, result, n_fits, seedings, boot_samples, events, progress,
                   calls, prev, aiccs_in, weights_out,
                   boot_dfs, hcp_iter, cdf_iter>>

\* Lines 69-75: seed, keep the positive concentrations, reject short data.
\* A caller that has called before calls again with the same arguments.
Call ==
    /\ pc = "idle"
    /\ calls < MaxCalls
    /\ \E a \in Args :
        /\ calls > 0 => a = prev.args
        /\ a.mode = "model_averaging" => a.selected_dist = None
        /\ args' = a
        /\ rng' = SeedRng(rng, a.random_seed)
        /\ seedings' = seedings + 1
        /\ LET valid == SelectSeq(a.data, Positive)
           IN  /\ valid_data' = valid
               /\ IF Len(valid) < 5
                  THEN /\ result' = Failure("Not enough valid data points (minimum 5 required).")
                       /\ pc' = "done"
                       /\ n' = n
                  ELSE /\ result' = result
                       /\ pc' = "fit"
                       /\ n' = Len(valid)
    /\ log_messages' = <<>>
    /\ UNCHANGED <<lib, dists_to_fit, results_df, final_hcp, x_range_log,
                   boot_hcps, boot_cdfs, i, ci, n_fits, boot_samples, events,
                   progress, calls, prev, perturbed, aiccs_in, weights_out,
                   boot_dfs, hcp_iter, cdf_iter>>

\* Lines 77-108: fit the candidates on the original data, weight them, build
\* the grid.
FitOriginal ==
    /\ pc = "fit"
    /\ LET dists == DistsToFit(args.mode, args.selected_dist)
           f     == OriginalFits(dists, valid_data, lib)
           df    == WithWeights(args.mode, f.fits)
       IN  /\ dists_to_fit' = dists
           /\ n_fits' = n_fits + f.count
           /\ events' = events \o f.events
           /\ log_messages' = log_messages \o f.log
           /\ IF f.fits = <<>>
              THEN /\ result' = Failure("Failed to fit any valid distributions to the data.")
                   /\ pc' = "done"
                   /\ UNCHANGED <<results_df, final_hcp, x_range_log>>
              ELSE /\ results_df' = df
                   /\ final_hcp' = WeightedHcp(df)
                   /\ x_range_log' = Linspace(Ln(MinSeq(valid_data)) - 2,
                                              Ln(MaxSeq(valid_data)) + 2)
                   /\ pc' = "boot"
                   /\ result' = result
    /\ boot_hcps' = <<>> /\ boot_cdfs' = <<>> /\ i' = 0
    /\ UNCHANGED <<args, lib, rng, valid_data, n, ci, seedings, boot_samples,
                   progress, calls, prev, perturbed, aiccs_in, weights_out,
                   boot_dfs, hcp_iter, cdf_iter>>

\* Lines 110-144: one iteration of the bootstrap loop.
BootIteration ==
    /\ pc = "boot"
    /\ i < args.n_boot
    /\ LET rs   == Resample(valid_data, rng, n)
           b    == BootFits(dists_to_fit, rs.sample, lib, i + 1)
           b_results_df == WithWeights(args.mode, b.fits)
           failed == <<Entry("iter_failed", "", i + 1)>>
       IN  /\ rng' = rs.rng
           /\ boot_samples' = Append(boot_samples, rs.sample)
           /\ n_fits' = n_fits + b.count
           /\ IF b.fits = <<>>
              THEN \* line 123: continue
                   /\ events' = events \o b.events \o <<Entry("iteration_discarded", "", i + 1)>>
                   /\ boot_dfs' = Append(boot_dfs, <<>>)
                   /\ UNCHANGED <<boot_hcps, boot_cdfs, hcp_iter, cdf_iter,
                                  log_messages, progress>>
              ELSE /\ boot_dfs' = Append(boot_dfs, b_results_df)
                   /\ boot_hcps' = Append(boot_hcps, WeightedHcp(b_results_df))
                   /\ hcp_iter' = Append(hcp_iter, i + 1)
                   /\ IF CdfRaises(b_results_df)
                      THEN \* lines 133/136 raise, caught at line 142
                           /\ log_messages' = log_messages \o failed
                           /\ events' = events \o b.events \o <<Entry("iteration_failed", "", i + 1)>>
                           /\ UNCHANGED <<boot_cdfs, cdf_iter, progress>>
                      ELSE /\ boot_cdfs' = Append(boot_cdfs, AvgCdf(b_results_df, Len(b_results_df)))
                           /\ cdf_iter' = Append(cdf_iter, i + 1)
                           /\ IF args.progress_bar
                              THEN \E sink_raises \in BOOLEAN :
                                     IF sink_raises
                                     THEN /\ log_messages' = log_messages \o failed
                                          /\ events' = events \o b.events \o <<Entry("iteration_failed", "", i + 1)>>
                                          /\ progress' = progress
                                     ELSE /\ progress' = Append(progress, <<i + 1, args.n_boot>>)
                                          /\ events' = events \o b.events
                                          /\ log_messages' = log_messages
                              ELSE /\ events' = events \o b.events
                                   /\ UNCHANGED <<log_messages, progress>>
    /\ i' = i + 1
    /\ UNCHANGED <<pc, args, lib, valid_data, n, dists_to_fit, results_df,
                   final_hcp, x_range_log, ci, result, seedings, calls, prev,
                   perturbed, aiccs_in, weights_out>>

\* Lines 146-150: the reliability warning and the percentiles.  With more
\* than two HCp values and no curve at all, np.percentile of an empty list
\* either raises or yields a scalar NaN, depending on the numpy build.
NaNScalar == <<NaN>>

\* the numpy build is part of the library selection
NumpyRaisesOnEmpty(l) == l % 2 = 0

\* the warning is given only below half of n_boot
Unreliable_Half(successes, n_boot) == successes * 10 < n_boot * 5

\* line 146: len(boot_hcps) < n_boot * 0.8
Unreliable(successes, n_boot) == successes * 10 < n_boot * 8

Aggregate ==
    /\ pc = "boot"
    /\ i = args.n_boot
    /\ log_messages' =
          IF Unreliable(Len(boot_hcps), args.n_boot)
          THEN Append(log_messages, Entry("ci_unreliable", "", 0))
          ELSE log_messages
    /\ IF Len(boot_hcps) > 2
       THEN IF boot_cdfs = <<>>
            THEN   IF NumpyRaisesOnEmpty(lib)
                   THEN /\ result' = Raised("IndexError")
                        /\ pc' = "done"
                        /\ ci' = ci
                   ELSE /\ ci' = [hcp_ci_lower |-> Percentile(boot_hcps, 25),
                                  hcp_ci_upper |-> Percentile(boot_hcps, 975),
                                  lower_ci_curve |-> NaNScalar,
                                  upper_ci_curve |-> NaNScalar]
                        /\ pc' = "assemble"
                        /\ result' = result
            ELSE /\ ci' = [hcp_ci_lower |-> Percentile(boot_hcps, 25),
                           hcp_ci_upper |-> Percentile(boot_hcps, 975),
                           lower_ci_curve |-> PercentileCurve(boot_cdfs, 25),
                           upper_ci_curve |-> PercentileCurve(boot_cdfs, 975)]
                 /\ pc' = "assemble"
                 /\ result' = result
       ELSE /\ ci' = [hcp_ci_lower |-> NaN, hcp_ci_upper |-> NaN,
                      lower_ci_curve |-> NaNCurve, upper_ci_curve |-> NaNCurve]
            /\ pc' = "assemble"
            /\ result' = result
    /\ UNCHANGED <<args, lib, rng, valid_data, n, dists_to_fit, results_df,
                   final_hcp, x_range_log, boot_hcps, boot_cdfs, i, n_fits,
                   seedings, boot_samples, events, progress, calls, prev,
                   perturbed, aiccs_in, weights_out,
                   boot_dfs, hcp_iter, cdf_iter>>

\* data.sort_values(by=value_col): ascending, missing values last
IsNaN(v) == v = NaN

NotNaN(v) == v # NaN

SortValues(data) == SortSeq(SelectSeq(data, NotNaN), <) \o SelectSeq(data, IsNaN)

\* np.exp of a grid point, in thousandths
ExpMilli(x) ==
    CASE x = -2 -> 135  [] x = -1 -> 368  [] x = 0 -> 1000  [] x = 1 -> 2718
      [] x = 2 -> 7389  [] x = 3 -> 20086 [] x = 4 -> 54598 [] x = 5 -> 148413

\* np.minimum(curve * 100, empirical_max); NaN propagates
CapCurve(curve, empirical_max) ==
    [g \in 1..Len(curve) |->
        IF curve[g] = NaN THEN NaN ELSE Min2(curve[g], empirical_max)]

\* Lines 152-173: the fitted curve, the empirical series, the cap, the bundle.
Assemble ==
    /\ pc = "assemble"
    /\ pc' = "done"
    /\ IF CdfRaises(results_df)
       THEN result' = Raised("cdf")
       ELSE LET final_avg_cdf == AvgCdf(results_df, Len(results_df))
                full_data     == SortValues(args.data)
                empirical_cdf_percent ==
                    [r \in 1..Len(full_data) |-> (r * 100000) \div (Len(full_data) + 1)]
                empirical_max == MaxSeq(empirical_cdf_percent)
                plot_data ==
                    [empirical_values |-> full_data,
                     empirical_cdf_percent |-> empirical_cdf_percent,
                     fitted_x_range |->
                         [g \in 1..Len(x_range_log) |-> ExpMilli(x_range_log[g])],
                     fitted_y_cdf_percent |-> CapCurve(final_avg_cdf, empirical_max),
                     lower_ci_percent |-> CapCurve(ci.lower_ci_curve, empirical_max),
                     upper_ci_percent |-> CapCurve(ci.upper_ci_curve, empirical_max)]
            IN  IF ~args.has_group
                THEN result' = Raised("KeyError: 'broad_group'")
                ELSE result' =
                       [kind |-> "bundle",
                        bundle |-> [hcp |-> final_hcp,
                                    hcp_ci_lower |-> ci.hcp_ci_lower,
                                    hcp_ci_upper |-> ci.hcp_ci_upper,
                                    results_df |-> results_df,
                                    plot_data |-> plot_data],
                        log |-> log_messages]
    /\ UNCHANGED <<args, lib, rng, valid_data, n, log_messages, dists_to_fit,
                   results_df, final_hcp, x_range_log, boot_hcps, boot_cdfs, i,
                   ci, n_fits, seedings, boot_samples, events, progress, calls,
                   prev, perturbed, aiccs_in, weights_out,
                   boot_dfs, hcp_iter, cdf_iter>>

\* The caller takes the outcome; the locals of the call are gone.
Return ==
    /\ pc = "done"
    /\ calls < MaxCalls
    /\ prev' = [args |-> args, result |-> result, ci |-> ci,
                 boot_samples |-> boot_samples]
    /\ calls' = calls + 1
    /\ pc' = "idle" /\ args' = NoArgs
    /\ valid_data' = <<>> /\ n' = 0 /\ log_messages' = <<>> /\ dists_to_fit' = <<>>
    /\ results_df' = <<>> /\ final_hcp' = NaN /\ x_range_log' = <<>>
    /\ boot_hcps' = <<>> /\ boot_cdfs' = <<>> /\ i' = 0 /\ ci' = NoCi
    /\ result' = NoResult /\ n_fits' = 0 /\ seedings' = 0 /\ boot_samples' = <<>>
    /\ boot_dfs' = <<>> /\ hcp_iter' = <<>> /\ cdf_iter' = <<>>
    /\ events' = <<>> /\ progress' = <<>>
    /\ perturbed' = FALSE
    /\ UNCHANGED <<lib, rng, aiccs_in, weights_out>>

\* ---------------------------------------------- the weights, on their own
\* The Akaike weights of lines 100 and 126 as a function of the AICc column.
MaxAicc == 8

AiccVals == (0 - MaxAicc)..MaxAicc

ApplyWeights ==
    /\ pc = "weights"
    /\ weights_out = <<>>
    /\ weights_out' = AkaikeWeights(aiccs_in)
    /\ UNCHANGED <<pc, args, lib, rng, valid_data, n, log_messages,
                   dists_to_fit, results_df, final_hcp, x_range_log, boot_hcps,
                   boot_cdfs, i, ci, result, n_fits, seedings, boot_samples,
                   events, progress, calls, prev, perturbed, aiccs_in,
                   boot_dfs, hcp_iter, cdf_iter>>

InitW ==
    /\ pc = "weights" /\ args = NoArgs /\ lib = 0 /\ rng = 0
    /\ Locals
    /\ calls = 0 /\ perturbed = FALSE
    /\ prev = [args |-> NoArgs, result |-> NoResult, ci |-> NoCi, boot_samples |-> <<>>]
    /\ aiccs_in \in UNION {[1..m -> AiccVals] : m \in 1..Len(Names)}
    /\ weights_out = <<>>

NextW == ApplyWeights

SpecW == InitW /\ [][NextW]_vars

Next ==
    \/ UnrelatedDraw
    \/ Call
    \/ FitOriginal
    \/ BootIteration
    \/ Aggregate
    \/ Assemble
    \/ Return

Spec == Init /\ [][Next]_vars

\* ------------------------------------------- core_analysis.py, as the app runs it
\* ssd_app.py line 107: the mode names core_analysis understands
mode_arg(analysis_mode) ==
    IF analysis_mode = "single_distribution" THEN "single" ELSE "average"

\* core_analysis._fit_single_distribution: the log-likelihood goes to
\* calculate_aicc as scipy gives it; Gamma is fitted with a free location,
\* which is another computation of scipy than the one of ssd_core
core_analysis_fit_single_distribution(dist_name, model_info, data, l) ==
    LET o    == LibOutcome(dist_name, data, IF dist_name = "Gamma" THEN l + 1 ELSE l)
        log_likelihood == o.ll
        aicc == calculate_aicc(model_info.k, log_likelihood, Len(data))
        hcp  == IF model_info.log THEN Exp(o.q) ELSE o.q
    IN  IF o.raises THEN NoFit
        ELSE [raised |-> FALSE, name |-> dist_name, aicc |-> aicc, hcp |-> hcp,
              is_log |-> model_info.log, cdf |-> o.cdf,
              cdf_raises |-> o.cdf_raises, weight |-> 0]

KnownDists(dists) == SelectSeq(dists, LAMBDA name : name \in DOMAIN DISTRIBUTIONS)

\* core_analysis lines 45-51 and 80-86: every fit that does not raise is kept
CoreFits(dists, data, l) ==
    LET known == KnownDists(dists)
        all   == [j \in 1..Len(known) |->
                    core_analysis_fit_single_distribution(
                        known[j], DISTRIBUTIONS[known[j]], data, l)]
    IN  [fits   |-> SelectSeq(all, LAMBDA fit : ~fit.raised),
         raised |-> SelectSeq(known, LAMBDA name :
                        core_analysis_fit_single_distribution(
                            name, DISTRIBUTIONS[name], data, l).raised)]

\* core_analysis lines 55 and 94
CoreWithWeights(mode, fits) ==
    LET w == IF mode = "single" THEN [j \in 1..Len(fits) |-> 1000]
             ELSE AkaikeWeights([j \in 1..Len(fits) |-> fits[j].aicc])
    IN  [j \in 1..Len(fits) |-> [fits[j] EXCEPT !.weight = w[j]]]

\* np.sum of a pandas Series: the NaN products are skipped
CoreWeightedHcp(df) ==
    SumSeq([j \in 1..Len(df) |->
              IF df[j].hcp = NaN THEN 0 ELSE df[j].weight * df[j].hcp])

\* np.linspace(np.log(min) * 0.9, np.log(max) * 1.1, GridLen), in tenths
CoreLinspace(valid) == Linspace(Ln(MinSeq(valid)) * 9, Ln(MaxSeq(valid)) * 11)

\* np.exp of a grid point given in tenths, in thousandths
ExpTenths(x) ==
    CASE x = 0  -> 1000  [] x = 9  -> 2460  [] x = 10 -> 2718
      [] x = 11 -> 3004  [] x = 16 -> 4953  [] x = 33 -> 27113

\* results_df.sample(n=1, weights='weight'): a row of positive weight
ChooseRow(df, r) ==
    LET rows == SelectSeq([j \in 1..Len(df) |-> j], LAMBDA j : df[j].weight > 0)
    IN  rows[(r % Len(rows)) + 1]

\* what dist_obj.rvs can give, brought to the concentration scale: values
\* of the support of the fitted model, and 0 for a draw that the cleaning of
\* lines 73-74 removes
RvsSupport == <<1, 3, 7, 20, 0>>

\* chosen_model_row['dist_obj'].rvs(*params, size=n)
RECURSIVE Rvs(_, _, _)
Rvs(row, r, count) ==
    IF count = 0 THEN [sample |-> <<>>, rng |-> r]
    ELSE LET rest == Rvs(row, NextRng(r), count - 1)
         IN  [sample |-> <<RvsSupport[((r + NameIdx(row.name)) % Len(RvsSupport)) + 1]>>
                           \o rest.sample,
              rng |-> rest.rng]

\* the arguments ssd_app.py hands over: a frame with the display-group
\* column, no progress sink, no seed
AppArgs == {a \in Args : a.has_group /\ ~a.progress_bar /\ a.random_seed = 42
                         /\ (a.mode = "model_averaging" => a.selected_dist = None)}

\* core_analysis lines 37-60: filter, fit the candidates, weight them
AppCall ==
    /\ pc = "app_idle"
    /\ LET valid == SelectSeq(args.data, Positive)
           mode  == mode_arg(args.mode)
           dists == IF mode = "single" THEN <<args.selected_dist>> ELSE Names
           f     == CoreFits(dists, valid, lib)
           df    == CoreWithWeights(mode, f.fits)
       IN  /\ valid_data' = valid
           /\ IF Len(valid) < 5
              THEN /\ result' = Failure("Not enough valid data points (minimum 5 required).")
                   /\ pc' = "app_done"
                   /\ UNCHANGED <<n, dists_to_fit, log_messages, results_df,
                                  final_hcp, x_range_log>>
              ELSE /\ n' = Len(valid)
                   /\ dists_to_fit' = dists
                   /\ log_messages' =
                         [j \in 1..Len(f.raised) |-> Entry("fit_failed", f.raised[j], 0)]
                   /\ IF f.fits = <<>>
                      THEN /\ result' = Failure("Failed to fit any distributions to the original data.")
                           /\ pc' = "app_done"
                           /\ UNCHANGED <<results_df, final_hcp, x_range_log>>
                      ELSE /\ results_df' = df
                           /\ final_hcp' = CoreWeightedHcp(df)
                           /\ x_range_log' = CoreLinspace(valid)
                           /\ pc' = "app_boot"
                           /\ result' = result
    /\ UNCHANGED <<args, lib, rng, boot_hcps, boot_cdfs, i, ci, n_fits,
                   seedings, boot_samples, boot_dfs, hcp_iter, cdf_iter, events,
                   progress, calls, prev, perturbed, aiccs_in, weights_out>>

\* core_analysis lines 62-105: one iteration of the parametric bootstrap
AppBootIteration ==
    /\ pc = "app_boot"
    /\ i < args.n_boot
    /\ LET chosen_model_row == results_df[ChooseRow(results_df, rng)]
           drawn == Rvs(chosen_model_row, NextRng(rng), n)
           boot_sample == SelectSeq(drawn.sample, Positive)
           b     == CoreFits(dists_to_fit, boot_sample, lib)
           b_results_df == CoreWithWeights(mode_arg(args.mode), b.fits)
           note  == IF Len(b.fits) < Len(dists_to_fit)
                    THEN <<Entry("boot_note", "", i + 1)>> ELSE <<>>
       IN  /\ rng' = drawn.rng
           /\ boot_samples' = Append(boot_samples, boot_sample)
           /\ IF Len(boot_sample) < 5
              THEN \* line 76: continue
                   /\ boot_dfs' = Append(boot_dfs, <<>>)
                   /\ UNCHANGED <<boot_hcps, boot_cdfs, hcp_iter, cdf_iter, log_messages>>
              ELSE IF b.fits = <<>>
              THEN \* line 90: continue
                   /\ boot_dfs' = Append(boot_dfs, <<>>)
                   /\ log_messages' = log_messages \o note
                   /\ UNCHANGED <<boot_hcps, boot_cdfs, hcp_iter, cdf_iter>>
              ELSE /\ boot_dfs' = Append(boot_dfs, b_results_df)
                   /\ boot_hcps' = Append(boot_hcps, CoreWeightedHcp(b_results_df))
                   /\ hcp_iter' = Append(hcp_iter, i + 1)
                   /\ IF CdfRaises(b_results_df)
                      THEN \* line 99 raises, caught at line 102
                           /\ log_messages' = log_messages \o note
                                                 \o <<Entry("iter_failed", "", i + 1)>>
                           /\ UNCHANGED <<boot_cdfs, cdf_iter>>
                      ELSE /\ boot_cdfs' = Append(boot_cdfs, AvgCdf(b_results_df, Len(b_results_df)))
                           /\ cdf_iter' = Append(cdf_iter, i + 1)
                           /\ log_messages' = log_messages \o note
    /\ i' = i + 1
    /\ UNCHANGED <<pc, args, lib, valid_data, n, dists_to_fit, results_df,
                   final_hcp, x_range_log, ci, result, n_fits, seedings, events,
                   progress, calls, prev, perturbed, aiccs_in, weights_out>>

\* core_analysis lines 107-123: the percentiles and the bundle
AppFinish ==
    /\ pc = "app_boot"
    /\ i = args.n_boot
    /\ pc' = "app_done"
    /\ LET few == Len(boot_hcps) < 2
           log == IF few THEN Append(log_messages, Entry("ci_not_calculated", "", 0))
                  ELSE log_messages
           bounds ==
               IF few
               THEN [hcp_ci_lower |-> NaN, hcp_ci_upper |-> NaN,
                     lower_ci_curve |-> NaNCurve, upper_ci_curve |-> NaNCurve]
               ELSE [hcp_ci_lower |-> Percentile(boot_hcps, 25),
                     hcp_ci_upper |-> Percentile(boot_hcps, 975),
                     lower_ci_curve |-> IF boot_cdfs = <<>> THEN NaNScalar
                                        ELSE PercentileCurve(boot_cdfs, 25),
                     upper_ci_curve |-> IF boot_cdfs = <<>> THEN NaNScalar
                                        ELSE PercentileCurve(boot_cdfs, 975)]
           full_data == SortValues(args.data)
           plot_data ==
               [empirical_values |-> full_data,
                empirical_cdf_percent |->
                    [r \in 1..Len(full_data) |-> (r * 100000) \div (Len(full_data) + 1)],
                fitted_x_range |-> [g \in 1..Len(x_range_log) |-> ExpTenths(x_range_log[g])],
                fitted_y_cdf_percent |-> AvgCdf(results_df, Len(results_df)),
                lower_ci_percent |-> bounds.lower_ci_curve,
                upper_ci_percent |-> bounds.upper_ci_curve]
       IN  /\ log_messages' = log
           /\ IF (~few) /\ boot_cdfs = <<>> /\ NumpyRaisesOnEmpty(lib)
              THEN /\ result' = Raised("IndexError") /\ ci' = ci
              ELSE /\ ci' = bounds
                   /\ IF CdfRaises(results_df)
                      THEN result' = Raised("cdf")
                      ELSE result' =
                             [kind |-> "bundle",
                              bundle |-> [hcp |-> final_hcp,
                                          hcp_ci_lower |-> bounds.hcp_ci_lower,
                                          hcp_ci_upper |-> bounds.hcp_ci_upper,
                                          results_df |-> results_df,
                                          plot_data |-> plot_data],
                              log |-> log]
    /\ UNCHANGED <<args, lib, rng, valid_data, n, dists_to_fit, results_df,
                   final_hcp, x_range_log, boot_hcps, boot_cdfs, i, n_fits,
                   seedings, boot_samples, boot_dfs, hcp_iter, cdf_iter, events,
                   progress, calls, prev, perturbed, aiccs_in, weights_out>>

\* the app's process: any state of the global generator, one run
InitApp ==
    /\ pc = "app_idle" /\ args \in AppArgs
    /\ lib \in 0..(LibSize - 1)
    /\ rng \in 0..(RngMod - 1)
    /\ Locals
    /\ calls = 0 /\ perturbed = FALSE
    /\ prev = [args |-> NoArgs, result |-> NoResult, ci |-> NoCi, boot_samples |-> <<>>]
    /\ aiccs_in = <<>> /\ weights_out = <<>>

NextApp ==
    \/ AppCall
    \/ AppBootIteration
    \/ AppFinish

SpecApp == InitApp /\ [][NextApp]_vars

\* =================================================================== claims
InLog(e, log) == \E k \in 1..Len(log) : log[k] = e

ReliabilityFlag == Entry("ci_unreliable", "", 0)

NotEnoughData == Failure("Not enough valid data points (minimum 5 required).")

NoValidFit == Failure("Failed to fit any valid distributions to the data.")

\* number of rows of the input whose concentration is strictly positive
CountPositive(data) ==
    Cardinality({k \in 1..Len(data) : data[k] # NaN /\ data[k] > 0})

\* the call got past the fit of the original data with a survivor
LoopEntered == pc \in {"boot", "assemble", "done"} /\ results_df # <<>>

\* the bootstrap loop has run to its end
LoopFinished == LoopEntered /\ pc \in {"assemble", "done"}

\* C1: every call ends either with a complete bundle and a warning list or
\* with (None, [reason]) where the reason is non-empty and there is no numeric
\* payload; no exception escapes, for datasets without the display-group
\* column too.
C1_TwoOutcomes ==
    pc = "done" =>
        \/ /\ result.kind = "bundle"
           /\ result.bundle.results_df # <<>>
           /\ result.bundle.plot_data # <<>>
        \/ /\ result.kind = "failure"
           /\ Len(result.log) = 1
           /\ result.log[1][1] # ""
           /\ result.bundle = NoBundle

\* C2: with fewer than 5 strictly positive concentrations the call returns
\* (None, [message]), fits no candidate and runs no bootstrap iteration; with
\* 5 or more it never produces that outcome.
C2_MinimumData ==
    pc \in {"fit", "boot", "assemble", "done"} =>
        IF CountPositive(args.data) < 5
        THEN /\ pc = "done"
             /\ result = NotEnoughData
             /\ n_fits = 0 /\ i = 0 /\ boot_samples = <<>>
        ELSE result # NotEnoughData

C2_Witness ==
    /\ pc = "done"
    /\ result = NotEnoughData
    /\ \E k \in 1..Len(args.data) : args.data[k] = NaN
    /\ \E k \in 1..Len(args.data) : args.data[k] = 0
    /\ CountPositive(args.data) = 4

\* the candidates the call attempts on the original data
Attempted ==
    {name \in DOMAIN DISTRIBUTIONS :
        args.mode = "single_distribution" => name = args.selected_dist}

\* scipy raises for the candidate on the original data, or its HCp is
\* non-finite or non-positive
FailsOnOriginal(name) ==
    LET o   == LibOutcome(name, valid_data, lib)
        hcp == IF DISTRIBUTIONS[name].log THEN Exp(o.q) ELSE o.q
    IN  o.raises \/ hcp = NaN \/ hcp <= 0

\* C3: when no candidate survives on the original data (also when the single
\* candidate is absent or outside the family set) the call returns
\* (None, [reason]), has no numeric payload, runs no bootstrap iteration and
\* raises nothing.
C3_NoSurvivor ==
    ( /\ pc \in {"boot", "assemble", "done"}
      /\ Len(valid_data) >= 5
      /\ \A name \in Attempted : FailsOnOriginal(name) )
    => /\ pc = "done"
       /\ result = NoValidFit
       /\ i = 0 /\ boot_samples = <<>> /\ boot_hcps = <<>>

C3_Witness ==
    /\ pc = "done" /\ result = NoValidFit
    /\ args.mode = "model_averaging"
    /\ n_fits = 4
    /\ \E e \in {events[k] : k \in 1..Len(events)} : e[1] = "candidate_failed"

\* C4: a call whose arguments equal those of the previous call draws the
\* same resamples and obtains the same HCp bounds and CI curves, whatever
\* happened to the global generator in between; the generator is seeded
\* exactly once per call and never inside the loop.
C4_Deterministic ==
    /\ pc \in {"fit", "boot", "assemble", "done"} => seedings = 1
    /\ (pc = "done" /\ calls > 0 /\ args = prev.args)
       => /\ boot_samples = prev.boot_samples
          /\ ci = prev.ci

C4_Witness ==
    /\ pc = "done" /\ calls > 0 /\ perturbed
    /\ args = prev.args
    /\ Len(boot_samples) = 3
    /\ ci.hcp_ci_lower # NaN
    /\ ci.hcp_ci_lower # ci.hcp_ci_upper

\* C5: the Akaike weights of any non-empty set of candidates are each in
\* [0,1] and sum to 1.0 within the rounding of one unit per candidate.
C5_WeightsNormalised ==
    weights_out # <<>> =>
        /\ Len(weights_out) = Len(aiccs_in)
        /\ \A j \in 1..Len(weights_out) : weights_out[j] \in 0..1000
        /\ SumSeq(weights_out) <= 1000
        /\ SumSeq(weights_out) >= 1000 - Len(weights_out)

C5_Witness ==
    /\ weights_out # <<>>
    /\ Len(weights_out) = 4
    /\ \E j \in 1..4 : weights_out[j] = 0
    /\ \E j \in 1..4 : weights_out[j] > 0 /\ weights_out[j] < 500

\* C6: in single-distribution mode with a candidate of the family set, only
\* that candidate is fitted, on the original data and in every iteration; its
\* weight is exactly 1.0 and the HCp of the bundle is its own HCp.
C6_SingleMode ==
    ( /\ args.mode = "single_distribution"
      /\ args.selected_dist \in DOMAIN DISTRIBUTIONS
      /\ pc \in {"boot", "assemble", "done"}
      /\ Len(valid_data) >= 5 )
    => /\ dists_to_fit = <<args.selected_dist>>
       /\ n_fits = 1 + i
       /\ results_df # <<>> =>
            /\ Len(results_df) = 1
            /\ results_df[1].name = args.selected_dist
            /\ results_df[1].weight = 1000
            /\ final_hcp = 1000 * results_df[1].hcp
       /\ result.kind = "bundle" =>
            /\ result.bundle.hcp = 1000 * results_df[1].hcp
            /\ result.bundle.results_df = results_df

C6_Witness ==
    /\ pc = "done" /\ result.kind = "bundle"
    /\ args.mode = "single_distribution"
    /\ i = 3 /\ n_fits = 4

\* iterations 1..i that were discarded: no candidate survived, or a step
\* raised and the iteration was logged as failed
DiscardedIterations ==
    {k \in 1..i : \E j \in 1..Len(events) :
        events[j][1] \in {"iteration_discarded", "iteration_failed"} /\ events[j][3] = k}

\* C7: a discarded iteration (no surviving candidate, or a step that raised)
\* leaves no HCp and no curve behind; the loop runs exactly n_boot iterations
\* without retry, the successes never exceed n_boot, and aggregation and
\* result assembly follow.
C7_DiscardedIterations ==
    LoopEntered =>
        /\ Len(boot_hcps) = i - Cardinality(DiscardedIterations)
        /\ Len(boot_cdfs) = i - Cardinality(DiscardedIterations)
        /\ Len(boot_samples) = i
        /\ i <= args.n_boot
        /\ Len(boot_hcps) <= args.n_boot
        /\ pc \in {"assemble", "done"} => i = args.n_boot
        /\ pc = "done" => result # Raised("IndexError")

\* an event has its entry in a log
Logged(e, log) ==
    IF e[1] = "candidate_failed"
    THEN \E k \in 1..Len(log) :
            log[k][1] \in {"fit_failed", "hcp_invalid"} /\ log[k][2] = e[2] /\ log[k][3] = e[3]
    ELSE \E k \in 1..Len(log) : log[k][1] = "iter_failed" /\ log[k][3] = e[3]

\* C8: every candidate failure (original data or bootstrap) and every
\* discarded iteration has an entry in the warning log, and the log handed
\* back holds every entry accumulated up to the return.
C8_FailuresLogged ==
    (pc = "done" /\ result.kind \in {"bundle", "failure"} /\ Len(valid_data) >= 5) =>
        /\ \A j \in 1..Len(events) : Logged(events[j], result.log)
        /\ \A k \in 1..Len(log_messages) : InLog(log_messages[k], result.log)

HasNaN(curve) == \E g \in 1..Len(curve) : curve[g] = NaN

\* C10: a returned bundle whose HCp bounds or CI curves are NaN always comes
\* with the flag in the returned log.
C10_DegradedNeverHidden ==
    ( /\ pc = "done" /\ result.kind = "bundle"
      /\ \/ result.bundle.hcp_ci_lower = NaN
         \/ result.bundle.hcp_ci_upper = NaN
         \/ HasNaN(result.bundle.plot_data.lower_ci_percent)
         \/ HasNaN(result.bundle.plot_data.upper_ci_percent) )
    => InLog(ReliabilityFlag, result.log)


\* the names of the rows of a table
RowNames(df) == {df[k].name : k \in 1..Len(df)}

\* the AICc column of a table
AiccColumn(df) == [k \in 1..Len(df) |-> df[k].aicc]

\* np.exp(-0.5 * (aicc - aicc.min())) of row k is zero: the weight of the
\* row is 0.0 in floating point exactly in this case (a weight that is only
\* rounded to zero by the division in thousandths is not counted)
Underflows(df, k) == ExpNegHalf(df[k].aicc - MinSeq(AiccColumn(df))) = 0

\* C11 as stated: in averaged mode the table of a returned bundle has a row
\* for a candidate exactly when the candidate's Akaike weight is finite and
\* strictly positive: no row has weight 0, and every attempted candidate
\* that was given a positive weight has a row.
C11_AsStated ==
    (pc = "done" /\ result.kind = "bundle" /\ args.mode = "model_averaging") =>
        LET df == result.bundle.results_df
        IN  /\ \A k \in 1..Len(df) : ~Underflows(df, k) /\ IsFinite(df[k].weight)
            /\ \A name \in Attempted :
                  (~FailsOnOriginal(name)) => name \in RowNames(df)

\* C11, amended: in averaged mode the table of a returned bundle has exactly
\* one row per attempted candidate that survived on the original data (fit
\* did not raise, HCp finite and positive); each row carries the Akaike
\* weight computed over the rows' AICc values, a number in [0,1] that may
\* be 0.
C11_SurvivorRows ==
    (pc = "done" /\ result.kind = "bundle" /\ args.mode = "model_averaging") =>
        LET df == result.bundle.results_df
        IN  /\ \A name \in Attempted :
                  name \in RowNames(df) <=> ~FailsOnOriginal(name)
            /\ RowNames(df) \subseteq Attempted
            /\ Cardinality(RowNames(df)) = Len(df)
            /\ \A k \in 1..Len(df) :
                  /\ df[k].weight \in 0..1000
                  /\ df[k].weight = AkaikeWeights(AiccColumn(df))[k]

C11_Witness ==
    /\ pc = "done" /\ result.kind = "bundle" /\ args.mode = "model_averaging"
    /\ \E k \in 1..Len(result.bundle.results_df) :
          /\ Underflows(result.bundle.results_df, k)
          /\ result.bundle.results_df[k].weight = 0
    /\ \E name \in Attempted : FailsOnOriginal(name)


\* every row of a table has a finite, strictly positive HCp
AllHcpValid(df) == \A k \in 1..Len(df) : IsFinite(df[k].hcp) /\ df[k].hcp > 0

\* the entry the original fit logs for a failing candidate
FailureEntry(name) ==
    IF LibOutcome(name, valid_data, lib).raises
    THEN Entry("fit_failed", name, 0)
    ELSE Entry("hcp_invalid", name, 0)

MaxEmpiricalPercentile == (Len(valid_data) * 100000) \div (Len(valid_data) + 1)

\* every computed point of the curve is at most the bound (NaN marks a point
\* that was not computed)
AtMost(curve, bound) == \A g \in 1..Len(curve) : curve[g] # NaN => curve[g] <= bound

\* C13: in a returned bundle every point of the fitted curve and of the two
\* CI curves is at most n/(n+1)*100, n the number of valid observations;
\* the three curves have one value per point of fitted_x_range; that grid is
\* the one built from the minimum and maximum of the original valid data,
\* and it stays the same through the bootstrap loop.
C13_CappedAligned ==
    /\ LoopEntered =>
          x_range_log = Linspace(Ln(MinSeq(valid_data)) - 2, Ln(MaxSeq(valid_data)) + 2)
    /\ (pc = "done" /\ result.kind = "bundle") =>
          LET pd == result.bundle.plot_data
          IN  /\ pd.fitted_x_range =
                    [g \in 1..Len(x_range_log) |-> ExpMilli(x_range_log[g])]
              /\ Len(pd.fitted_y_cdf_percent) = Len(pd.fitted_x_range)
              /\ Len(pd.lower_ci_percent) = Len(pd.fitted_x_range)
              /\ Len(pd.upper_ci_percent) = Len(pd.fitted_x_range)
              /\ AtMost(pd.fitted_y_cdf_percent, MaxEmpiricalPercentile)
              /\ AtMost(pd.lower_ci_percent, MaxEmpiricalPercentile)
              /\ AtMost(pd.upper_ci_percent, MaxEmpiricalPercentile)


\* the values of a sequence
Range(seq) == {seq[k] : k \in 1..Len(seq)}

\* candidate name was fitted in iteration k: it has a row, or it failed
AttemptedInIteration(name, k) ==
    \/ name \in RowNames(boot_dfs[k])
    \/ \E j \in 1..Len(events) : events[j] = Entry("candidate_failed", name, k)

\* C14: every bootstrap sample has exactly n elements, each one of the n
\* original valid observations; the original observations stay what the
\* filter made of the input; every iteration fits exactly the candidates of
\* the original fit, those excluded on the original data included, and
\* weights them in the same mode.
C14_ResampleOriginal ==
    LoopEntered =>
        /\ valid_data = SelectSeq(args.data, Positive)
        /\ n = Len(valid_data)
        /\ Len(boot_samples) = i /\ Len(boot_dfs) = i
        /\ n_fits = (1 + i) * Cardinality(Attempted)
        /\ \A k \in 1..i :
              /\ Len(boot_samples[k]) = n
              /\ Range(boot_samples[k]) \subseteq Range(valid_data)
              /\ RowNames(boot_dfs[k]) \subseteq Attempted
              /\ \A name \in Attempted : AttemptedInIteration(name, k)
              /\ \A j \in 1..Len(boot_dfs[k]) :
                    boot_dfs[k][j].weight =
                        IF args.mode = "single_distribution" THEN 1000
                        ELSE AkaikeWeights(AiccColumn(boot_dfs[k]))[j]

C14_Witness ==
    /\ pc = "done" /\ args.mode = "model_averaging" /\ i = 3
    /\ \E k \in 1..i :
          /\ Range(boot_samples[k]) # Range(valid_data)
          /\ \E name \in Attempted :
                FailsOnOriginal(name) /\ name \in RowNames(boot_dfs[k])
    /\ boot_samples[1] # boot_samples[2]


\* the log-likelihood that entered the AICc of a row fitted on m values:
\* calculate_aicc solved for its log_likelihood argument
LLEntering(row, m) ==
    LET k == DISTRIBUTIONS[row.name].k
    IN  (2 * k + (2 * k * k + 2 * k) \div (m - k - 1) - row.aicc) \div 2

\* what the claim says it is: scipy's log-likelihood on the fit scale, minus
\* the sum of log(sample) for the families fitted on the log scale
LLClaimed(name, sample) ==
    LET ll == LibOutcome(name, sample, lib).ll
    IN  IF name \in {"Log-Normal", "Log-Logistic"} THEN ll - SumLn(sample) ELSE ll

\* C15: for Log-Normal and Log-Logistic the log-likelihood entering AICc is
\* the log-scale log-likelihood minus the sum of log(sample), for Weibull and
\* Gamma it is the uncorrected log-likelihood; this holds for the fits on
\* the original data and for every fit of a bootstrap iteration, where the
\* sample is the resample of that iteration.
C15_JacobianCorrection ==
    LoopEntered =>
        /\ \A j \in 1..Len(results_df) :
              LLEntering(results_df[j], Len(valid_data))
                  = LLClaimed(results_df[j].name, valid_data)
        /\ \A k \in 1..Len(boot_dfs) : \A j \in 1..Len(boot_dfs[k]) :
              LLEntering(boot_dfs[k][j], Len(boot_samples[k]))
                  = LLClaimed(boot_dfs[k][j].name, boot_samples[k])

C15_Witness ==
    /\ pc = "done" /\ args.mode = "model_averaging"
    /\ \E j \in 1..Len(results_df) : results_df[j].is_log
    /\ \E k \in 1..Len(boot_dfs) :
          /\ SumLn(boot_samples[k]) # SumLn(valid_data)
          /\ \E j \in 1..Len(boot_dfs[k]) : boot_dfs[k][j].is_log
          /\ \E j \in 1..Len(boot_dfs[k]) : ~boot_dfs[k][j].is_log


\* name and weight of every row of a table
NameWeights(df) == [k \in 1..Len(df) |-> <<df[k].name, df[k].weight>>]

\* what ssd_core.run_ssd_analysis makes of the same arguments on the
\* original data: its surviving fits with their weights
SsdCoreTable ==
    WithWeights(args.mode,
                OriginalFits(DistsToFit(args.mode, args.selected_dist),
                             valid_data, lib).fits)

\* C16: the run_ssd_analysis the app calls (core_analysis) behaves like
\* ssd_core.run_ssd_analysis on the same arguments: it fails exactly when
\* ssd_core finds no survivor, its table has the same candidates with the
\* same weights, the AICc of its log-scale rows is Jacobian-corrected, and
\* every bootstrap sample has n values, each an original valid observation.
C16_AppFollowsCore ==
    (pc \in {"app_boot", "app_done"} /\ Len(valid_data) >= 5) =>
        /\ (pc = "app_done" /\ result.kind = "failure") <=> (SsdCoreTable = <<>>)
        /\ results_df # <<>> =>
              /\ NameWeights(results_df) = NameWeights(SsdCoreTable)
              /\ \A j \in 1..Len(results_df) :
                    LLEntering(results_df[j], Len(valid_data))
                        = LLClaimed(results_df[j].name, valid_data)
        /\ \A k \in 1..Len(boot_samples) :
              /\ Len(boot_samples[k]) = n
              /\ Range(boot_samples[k]) \subseteq Range(valid_data)


\* no step of an iteration raised so far (candidates may have failed)
NothingRaised == \A j \in 1..Len(events) : events[j][1] # "iteration_failed"

\* C17: with a progress sink that does not raise, the sink has received one
\* update per executed iteration, successful or discarded; the k-th update
\* is k out of n_boot, so the values never decrease; for n_boot >= 1 the
\* last update before the return is n_boot out of n_boot.
C17_ProgressPerIteration ==
    (LoopEntered /\ args.progress_bar /\ NothingRaised) =>
        /\ Len(progress) = i
        /\ \A k \in 1..Len(progress) : progress[k] = <<k, args.n_boot>>
        /\ (pc \in {"assemble", "done"} /\ args.n_boot >= 1) =>
              /\ progress # <<>>
              /\ progress[Len(progress)] = <<args.n_boot, args.n_boot>>


\* C18: at every iteration boundary and when the percentiles are taken,
\* boot_hcps and boot_cdfs have the same length and their k-th entries come
\* from the same iteration (the same resample); no iteration that has an
\* entry in them is also logged as failed.
C18_HcpCurvePaired ==
    LoopEntered =>
        /\ Len(boot_hcps) = Len(boot_cdfs)
        /\ hcp_iter = cdf_iter
        /\ \A k \in Range(hcp_iter) \cup Range(cdf_iter) :
              ~InLog(Entry("iter_failed", "", k), log_messages)


\* C19: the empirical series of a returned bundle is built from exactly the
\* valid observations: its values are the valid observations in ascending
\* order, it has one percentile per valid observation, and the percentile
\* of rank r is r / (n + 1) * 100 with n the number of valid observations,
\* the resample size; rows with a non-positive or missing concentration
\* add nothing.
C19_EmpiricalFromValid ==
    (pc = "done" /\ result.kind = "bundle") =>
        LET pd == result.bundle.plot_data
        IN  /\ n = Len(valid_data)
            /\ pd.empirical_values = SortSeq(valid_data, <)
            /\ Len(pd.empirical_cdf_percent) = n
            /\ \A r \in 1..Len(pd.empirical_cdf_percent) :
                  pd.empirical_cdf_percent[r] = (r * 100000) \div (n + 1)

====
